---------------------------- MODULE Spec2Model ----------------------------
(***************************************************************************)
(* A model of the fleet operations engine of swarm_aws                     *)
(* (src/swarmcore/swarm.py, class Swarm) and of the replace plugins:       *)
(*                                                                         *)
(*   - the thread-pool executor Swarm._apply_threads behind Swarm.cmd and  *)
(*     Swarm.info                          (specification Spec),           *)
(*   - the name search at the head of Swarm.start                          *)
(*                                         (specification SpecStart),      *)
(*   - Swarm.wait with wait_running, wait_ssh, wait_terminated and         *)
(*     get_status against a provider whose instances change state on       *)
(*     their own                           (SpecWait, SpecWaitLive),       *)
(*   - Swarm.terminate and its wait loop   (SpecTerminate,                 *)
(*                                          SpecTerminateLive),            *)
(*   - sw_replace.replace and vm_replace.vm_replace                        *)
(*                                         (specification SpecReplace),    *)
(*   - the selectors Swarm.filter, Swarm.union and Swarm.intersection      *)
(*                                         (specification SpecSelect).     *)
(*                                                                         *)
(* Each specification moves the variables of its own part and leaves the   *)
(* others alone; the wait, terminate and replace parts share the provider. *)
(***************************************************************************)
EXTENDS Integers, Sequences, FiniteSets, Bags, TLC

\* ------------------------------------------------------------------------
\* Bounds of the model
\* ------------------------------------------------------------------------

\* longest instance list handed to _apply_threads
MaxInst == 6

\* largest number of instances asked of Swarm.start
MaxNum == 3

\* the small sets of names in use are drawn from node, node1 .. node<MaxUsed>
MaxUsed == 2

\* number of instances the provider holds
NumVM == 2

\* the timeouts handed to Swarm.wait are 0 .. MaxSleeps loop waits long
MaxSleeps == 2

\* the selectors work on lists of up to MaxSel of the instances 1 .. MaxSel
MaxSel == 3

\* most filters handed to one call of Swarm.filter
MaxFilters == 2

\* Swarm.copy is called with lists of up to MaxCopy instances
MaxCopy == 6

\* ------------------------------------------------------------------------
\* Program constants
\* ------------------------------------------------------------------------

\* Swarm.NumOSThreads: number of worker threads of _apply_threads
NumOSThreads == 5

\* Swarm.start: the instance number above which a colliding name is a
\* runaway search
RunawayLimit == 999

\* Swarm.RunningLoopWait, ConnectLoopWait, TerminatedLoopWait: seconds slept
\* between two polls
RunningLoopWait == 10
ConnectLoopWait == 10
TerminatedLoopWait == 10

VARIABLES
    \* ---- Swarm._apply_threads ----
    epc,        \* position of the calling thread inside _apply_threads
    instances,  \* the list passed to _apply_threads
    input_q,    \* Queue.Queue of instances not yet taken
    output_q,   \* Queue.Queue of result entries not yet collected
    result,     \* the list the caller builds and returns
    started,    \* number of doitThread objects started so far
    pool,       \* bag of the live worker threads: [pc, inst]
    taken,      \* history: how often each instance left input_q
    executed,   \* history: how often the functions were run on each instance
    raised,     \* history: instances whose function call raised
    \* ---- Swarm.start: the name search ----
    spc,                 \* position inside Swarm.start
    num,                 \* parameter num
    name,                \* parameter name: the name template
    used_names,          \* names_already_used: the names listed one by one
    used_block,          \* names_already_used: node1 .. node999 are in it too
    instance_number,
    number_names,
    pending_names,
    used_names0,         \* history: used_names when the search began
    pending_tags,        \* the Name tags of the instances pending at the call
    creates,             \* history: the counts asked of create_instances
    pending_instances,   \* the instances create_instances returned
    tag_next,            \* position of the tagging loop
    seen_running,        \* history: instances seen running
    name_tags,           \* the Name tag of each created instance
    tag_failed,          \* history: a tagging step raised
    \* ---- the provider (EC2) ----
    vm_state,    \* State.Name of every instance
    vm_ip,       \* whether the instance's record has a PublicIpAddress
    \* ---- Swarm.wait ----
    wpc,         \* position inside Swarm.wait
    w_instances, \* parameter instances: the submitted list
    w_state,     \* parameter state: 'running', 'ssh' or 'terminated'
    w_timeout,   \* parameter timeout, seconds
    delta,       \* time.time() - start, seconds
    check_ids,   \* check_ids (wait_running, wait_terminated), instances (wait_ssh)
    w_status,    \* the count returned by wait_running / wait_ssh / wait_terminated
    w_data,      \* the status list returned by Swarm.wait
    reached_at,  \* history: for every submitted instance, delta when it
                 \* first was in the target state (-1: not so far)
    polls,       \* history: passes of the wait loop made so far
    probed,      \* history: instances whose port 22 was tried
    confirmed,   \* history: instances a poll of wait_running found running
    requests,    \* history: the kinds of request the wait sent the provider
    missed,      \* history: ids asked for that a describe response lacked
    \* ---- Swarm.terminate ----
    tpc,         \* position inside Swarm.terminate
    t_instances, \* the local 'instances': the instances still polled
    t_wait,      \* the parameter wait
    t_listed,    \* history: the list terminate was called with
    t_requested, \* history: the instances i.terminate() was called for
    t_fetched,   \* history: the instances a state fetch showed terminated
    \* ---- the replace plugins ----
    rpc,               \* position inside replace
    r_tags,            \* the Name tag of every instance (None: no tag)
    r_name,            \* option -p: the name prefix (None: not given)
    r_args,            \* the <name> arguments
    r_over,            \* the launch attributes given on the command line
    replace_instances, \* the selection, once it is made
    r_selected,        \* whether the selection has been made
    calls,             \* history: the engine calls replace made, in order
    \* ---- Swarm.filter, Swarm.union, Swarm.intersection ----
    s_op,    \* the selector called: 'filter', 'union' or 'intersection'
    s_in1,   \* the first list, as it was when the call was made
    s_in2,   \* the second list (union, intersection)
    s_f,     \* the filters (filter)
    s_arg1,  \* the first list after the call: union appends to it in place
    s_out,   \* the list returned
    \* ---- Swarm.copy ----
    cpc,           \* 'idle', 'start', 'collect', 'returned' or 'raised'
    c_instances,   \* the instances handed to copy
    c_nokey,       \* the instance whose key file is not in ssh_dir, or 0
    c_refused,     \* the instance whose scp comes back non-zero, or 0
    c_next,        \* position of the 'for instance in instances' loop
    c_threads,     \* the CopyThreads started and not yet finished
    result_queue,  \* result_queue
    c_result,      \* result
    \* ---- the stop plugin ----
    kpc,                 \* 'idle', 'returned' or 'raised'
    k_given,             \* which of the options -p and -s were given
    k_status,            \* the value stop returned, -1: none
    filtered_instances,  \* the selection
    yes,                 \* option --yes
    typed,               \* what the user typed at the prompt
    prompted,            \* the count shown in the prompt, -1: no prompt
    terminated,          \* the lists handed to swm.terminate, in order
    \* ---- classify.classify ----
    console,   \* the console log handed to classify
    verdict,   \* what classify returned, 'none yet' before the call
    tmp_files, \* the contents of the files created in the temp directory
    \* ---- two callers of Swarm.start on one provider ----
    ec2_instances,   \* the provider's instances: state and Name tag
    conc_pc,         \* per caller: where it is in start
    conc_num,        \* per caller: argument num
    conc_names,      \* per caller: pending_names
    conc_instances,  \* per caller: pending_instances
    conc_next        \* per caller: index of the tagging loop

execVars == <<epc, instances, input_q, output_q, result, started, pool,
              taken, executed, raised>>

startVars == <<spc, num, name, used_names, used_block, instance_number,
               number_names, pending_names, used_names0, pending_tags,
               creates, pending_instances, tag_next, seen_running,
               name_tags, tag_failed>>

\* what the name search of start leaves alone
tagVars == <<pending_tags, creates, pending_instances, tag_next, seen_running,
             name_tags, tag_failed>>

provVars == <<vm_state, vm_ip>>

waitVars == <<wpc, w_instances, w_state, w_timeout, delta, check_ids,
              w_status, w_data, reached_at, polls, probed, confirmed,
              requests, missed>>

termVars == <<tpc, t_instances, t_wait, t_listed, t_requested, t_fetched>>

replaceVars == <<rpc, r_tags, r_name, r_args, r_over, replace_instances,
                 r_selected, calls>>

selVars == <<s_op, s_in1, s_in2, s_f, s_arg1, s_out>>

copyVars == <<cpc, c_instances, c_nokey, c_refused, c_next, c_threads,
              result_queue, c_result>>

\* the parts called through the plugins only
stopVars == <<kpc, k_given, k_status, filtered_instances, yes, typed,
              prompted, terminated>>

classVars == <<console, verdict, tmp_files>>

concVars == <<ec2_instances, conc_pc, conc_num, conc_names, conc_instances,
              conc_next>>

otherVars == <<copyVars, stopVars, classVars, concVars>>

vars == <<execVars, startVars, provVars, waitVars, termVars, replaceVars,
          selVars, otherVars>>

\* what the actions of one part leave alone
notExec == <<startVars, provVars, waitVars, termVars, replaceVars, selVars,
     otherVars>>
notStart == <<execVars, provVars, waitVars, termVars, replaceVars, selVars,
     otherVars>>
notWait == <<execVars, startVars, termVars, replaceVars, selVars,
     otherVars>>
notTerm == <<execVars, startVars, waitVars, replaceVars, selVars,
     otherVars>>
notReplace == <<execVars, startVars, provVars, waitVars, termVars, selVars,
     otherVars>>
notSel == <<execVars, startVars, provVars, waitVars, termVars, replaceVars,
     otherVars>>
notCopy == <<execVars, startVars, provVars, waitVars, termVars, replaceVars,
     selVars, stopVars, classVars, concVars>>
notStop == <<execVars, startVars, provVars, waitVars, termVars, replaceVars,
     selVars, copyVars, classVars, concVars>>
notClass == <<execVars, startVars, provVars, waitVars, termVars, replaceVars,
     selVars, copyVars, stopVars, concVars>>
notConc == <<execVars, startVars, provVars, waitVars, termVars, replaceVars,
     selVars, copyVars, stopVars, classVars>>

\* ------------------------------------------------------------------------
\* Helpers
\* ------------------------------------------------------------------------

Range(s) == {s[k] : k \in DOMAIN s}

NoDup(s) == \A a, b \in DOMAIN s : a # b => s[a] # s[b]

\* a worker thread: where it is in doitThread.run and the instance it holds
Worker(p, i) == [pc |-> p, inst |-> i]

One(w) == SetToBag({w})

\* threading.active_count() as the caller sees it: itself plus live workers
active_count == 1 + BagCardinality(pool)

\* workers that hold an instance and are evaluating the functions on it
InProgress == BagCardinality(pool) - CopiesIn(Worker("test", 0), pool)
                                   - CopiesIn(Worker("get", 0), pool)

\* ------------------------------------------------------------------------
\* Swarm._apply_threads
\* ------------------------------------------------------------------------

\* a pool with one thread per instance (what Swarm.copy does)
PoolSizePerInstance == Len(instances)

\* number of worker threads the caller starts
PoolSize == NumOSThreads

\* a get that hands out the head of the queue and leaves it there
DequeueKeep(q) == q

\* Queue.get_nowait on a non-empty queue: the queue that is left
Dequeue(q) == Tail(q)

\* _apply_threads(instances, *args) is entered; both queues are created and
\* the input queue is filled before any thread exists
ApplyThreads ==
    /\ epc = "idle"
    /\ \E n \in 0..MaxInst :
          /\ instances' = [k \in 1..n |-> k]
          /\ input_q' = [k \in 1..n |-> k]
    /\ output_q' = <<>>
    /\ result' = <<>>
    /\ epc' = "start"
    /\ UNCHANGED <<started, pool, taken, executed, raised>>
    /\ UNCHANGED notExec

\* for i in xrange(self.NumOSThreads): doitThread(...).start()
StartThread ==
    /\ epc = "start"
    /\ started < PoolSize
    /\ started' = started + 1
    /\ pool' = pool (+) One(Worker("test", 0))
    /\ UNCHANGED <<epc, instances, input_q, output_q, result, taken,
                   executed, raised>>
    /\ UNCHANGED notExec

StartDone ==
    /\ epc = "start"
    /\ started >= PoolSize
    /\ epc' = "loop"
    /\ UNCHANGED <<instances, input_q, output_q, result, started, pool,
                   taken, executed, raised>>
    /\ UNCHANGED notExec

\* doitThread.run: while not input_q.empty()
WorkerTest ==
    /\ Worker("test", 0) \in BagToSet(pool)
    /\ IF input_q = <<>>
          THEN pool' = pool (-) One(Worker("test", 0))
          ELSE pool' = (pool (-) One(Worker("test", 0))) (+) One(Worker("get", 0))
    /\ UNCHANGED <<epc, instances, input_q, output_q, result, started,
                   taken, executed, raised>>
    /\ UNCHANGED notExec

\* a worker that waits for an instance with a blocking input_q.get()
WorkerGetBlocking ==
    /\ Worker("get", 0) \in BagToSet(pool)
    /\ input_q # <<>>
    /\ pool' = (pool (-) One(Worker("get", 0)))
                   (+) One(Worker("run", Head(input_q)))
    /\ input_q' = Dequeue(input_q)
    /\ taken' = [taken EXCEPT ![Head(input_q)] = @ + 1]
    /\ UNCHANGED <<epc, instances, output_q, result, started, executed, raised>>
    /\ UNCHANGED notExec

\* doitThread.run: instance = input_q.get_nowait(); Queue.Empty ends the thread
WorkerGet ==
    /\ Worker("get", 0) \in BagToSet(pool)
    /\ IF input_q = <<>>
          THEN /\ pool' = pool (-) One(Worker("get", 0))
               /\ UNCHANGED <<input_q, taken>>
          ELSE /\ pool' = (pool (-) One(Worker("get", 0)))
                              (+) One(Worker("run", Head(input_q)))
               /\ input_q' = Dequeue(input_q)
               /\ taken' = [taken EXCEPT ![Head(input_q)] = @ + 1]
    /\ UNCHANGED <<epc, instances, output_q, result, started, executed, raised>>
    /\ UNCHANGED notExec

\* doitThread.run: every func(instance) returns; the result is queued
WorkerReturn ==
    /\ \E w \in BagToSet(pool) :
          /\ w.pc = "run"
          /\ pool' = (pool (-) One(w)) (+) One(Worker("test", 0))
          /\ output_q' = Append(output_q, w.inst)
          /\ executed' = [executed EXCEPT ![w.inst] = @ + 1]
    /\ UNCHANGED <<epc, instances, input_q, result, started, taken, raised>>
    /\ UNCHANGED notExec

\* doitThread.run: some func(instance) raises; nothing catches it, so run()
\* is left and the thread ends without queueing a result
WorkerRaise ==
    /\ \E w \in BagToSet(pool) :
          /\ w.pc = "run"
          /\ pool' = pool (-) One(w)
          /\ executed' = [executed EXCEPT ![w.inst] = @ + 1]
          /\ raised' = raised \cup {w.inst}
    /\ UNCHANGED <<epc, instances, input_q, output_q, result, started, taken>>
    /\ UNCHANGED notExec

\* while threading.active_count() > 1 or not output_q.empty(): first operand
CollectTestThreads ==
    /\ epc = "loop"
    /\ epc' = IF active_count > 1 THEN "drain" ELSE "loop2"
    /\ UNCHANGED <<instances, input_q, output_q, result, started, pool,
                   taken, executed, raised>>
    /\ UNCHANGED notExec

\* a loop condition that is only 'threading.active_count() > 1'
CollectTestThreadsOnly ==
    /\ epc = "loop2"
    /\ epc' = "done"
    /\ UNCHANGED <<instances, input_q, output_q, result, started, pool,
                   taken, executed, raised>>
    /\ UNCHANGED notExec

\* ... second operand, evaluated when no worker is alive
CollectTestQueue ==
    /\ epc = "loop2"
    /\ epc' = IF output_q # <<>> THEN "drain" ELSE "done"
    /\ UNCHANGED <<instances, input_q, output_q, result, started, pool,
                   taken, executed, raised>>
    /\ UNCHANGED notExec

\* while not output_q.empty(): result.append(output_q.get()); then sleep(1)
CollectDrain ==
    /\ epc = "drain"
    /\ IF output_q # <<>>
          THEN /\ result' = Append(result, Head(output_q))
               /\ output_q' = Tail(output_q)
               /\ UNCHANGED epc
          ELSE /\ epc' = "loop"
               /\ UNCHANGED <<result, output_q>>
    /\ UNCHANGED <<instances, input_q, started, pool, taken, executed, raised>>
    /\ UNCHANGED notExec



ExecInit ==
    /\ epc = "idle"
    /\ instances = <<>>
    /\ input_q = <<>>
    /\ output_q = <<>>
    /\ result = <<>>
    /\ started = 0
    /\ pool = EmptyBag
    /\ taken = [i \in 1..MaxInst |-> 0]
    /\ executed = [i \in 1..MaxInst |-> 0]
    /\ raised = {}

ExecNext ==
    \/ ApplyThreads
    \/ StartThread
    \/ StartDone
    \/ WorkerTest
    \/ WorkerGet
    \/ WorkerReturn
    \/ WorkerRaise
    \/ CollectTestThreads
    \/ CollectTestQueue
    \/ CollectDrain

\* ------------------------------------------------------------------------
\* Swarm.start: generation of the instance names
\* ------------------------------------------------------------------------

\* no value: no Name tag, an option that was not given
None == <<>>

\* the name templates: without and with the {number} placeholder
Templates == {"node", "node{number}"}

\* '{number' in name
HasNumber(t) == t = "node{number}"

\* a format that drops the number
FormatPlain(t, n) == <<"node">>

\* name.format(number=instance_number): the placeholder is replaced by the
\* decimal number (<<"node", 7>> stands for 'node7'); a template without
\* placeholder is returned as it is (<<"node">> stands for 'node')
Format(t, n) == IF HasNumber(t) THEN <<"node", n>> ELSE <<"node">>

\* the number a name was built from (0: none)
NumberOf(nm) == IF Len(nm) = 2 THEN nm[2] ELSE 0

\* node1 .. node999, every candidate up to the runaway limit
Block == {<<"node", i>> : i \in 1..RunawayLimit}

\* the list names_already_used, as a set: 'in' is all the code asks of it.
\* A fleet that occupies node1 .. node999 is held as the flag used_block.
names_already_used ==
    used_names \cup (IF used_block THEN Block ELSE {})

\* names_already_used as it was when the search began
used0 ==
    used_names0 \cup (IF used_block THEN Block ELSE {})

\* the few names a set of names in use is drawn from
SmallNames == {<<"node">>} \cup {<<"node", i>> : i \in 1..MaxUsed}

StartInit ==
    /\ spc = "idle"
    /\ num = 0
    /\ name = "node"
    /\ used_names = {}
    /\ used_block = FALSE
    /\ instance_number = 0
    /\ number_names = 0
    /\ pending_names = <<>>
    /\ used_names0 = {}
    /\ pending_tags = {}
    /\ creates = <<>>
    /\ pending_instances = <<>>
    /\ tag_next = 1
    /\ seen_running = {}
    /\ name_tags = <<>>
    /\ tag_failed = FALSE

\* start(num, name, ...) up to 'pending_names = []': names_already_used is
\* collected from the running instances
StartCall ==
    /\ spc = "idle"
    /\ \E n \in 0..MaxNum, t \in Templates, u \in SUBSET SmallNames :
          /\ num' = n
          /\ name' = t
          /\ \E top \in SUBSET {<<"node", RunawayLimit + 1>>} :
                /\ used_names' = u \cup top
                /\ used_names0' = u \cup top
                /\ used_block' \in IF u \subseteq {<<"node">>}
                                      THEN IF top = {} THEN BOOLEAN ELSE {TRUE}
                                      ELSE {FALSE}
          /\ pending_tags' \in {{}} \cup {{p} : p \in SmallNames}
    /\ UNCHANGED <<creates, pending_instances, tag_next, seen_running,
                   name_tags, tag_failed>>
    /\ instance_number' = 0
    /\ number_names' = 0
    /\ pending_names' = <<>>
    /\ spc' = "names"
    /\ UNCHANGED notStart

\* if num > 1 or '{number' in name: ... elif num == 1: ...
NameBranch ==
    /\ spc = "names"
    /\ IF num > 1 \/ HasNumber(name)
          THEN /\ spc' = "loop"
               /\ UNCHANGED <<pending_names, used_names>>
          ELSE IF num = 1
          THEN /\ pending_names' = Append(pending_names, Format(name, 0))
               /\ used_names' = used_names \cup {Format(name, 0)}
               /\ spc' = "create"
          ELSE /\ spc' = "create"
               /\ UNCHANGED <<pending_names, used_names>>
    /\ UNCHANGED <<num, name, used_block, instance_number, number_names,
                   used_names0, tagVars, notStart>>

\* one pass of 'while number_names < num'
NameLoop ==
    /\ spc = "loop"
    /\ number_names < num
    /\ instance_number' = instance_number + 1
    /\ LET instance_name == Format(name, instance_number')
       IN  IF instance_name \in names_already_used
              THEN /\ spc' = IF instance_number' > RunawayLimit
                                THEN "runaway" ELSE "loop"
                   /\ UNCHANGED <<number_names, pending_names, used_names>>
              ELSE /\ number_names' = number_names + 1
                   /\ pending_names' = Append(pending_names, instance_name)
                   /\ used_names' = used_names \cup {instance_name}
                   /\ UNCHANGED spc
    /\ UNCHANGED <<num, name, used_block, used_names0, tagVars, notStart>>

\* the while loop is left with num names collected
NameLoopExit ==
    /\ spc = "loop"
    /\ number_names >= num
    /\ spc' = "create"
    /\ UNCHANGED <<num, name, used_names, used_block, instance_number,
                   number_names, pending_names, used_names0, tagVars,
                   notStart>>

\* the variables of the name search
nameVars == <<num, name, used_names, used_block, instance_number,
              number_names, pending_names, used_names0, pending_tags>>

\* self.ec2.create_instances(..., MinCount=num, MaxCount=num): the provider
\* creates num instances, or none and the call raises; 'if
\* pending_instances:' skips the tagging when the list is empty
CreateInstances ==
    /\ spc = "create"
    /\ creates' = Append(creates, num)
    /\ \E done \in BOOLEAN :
          IF done
             THEN /\ pending_instances' = [k \in 1..num |-> k]
                  /\ name_tags' = [k \in 1..num |-> None]
                  /\ spc' = "created"
                  /\ tag_failed' = FALSE
             ELSE /\ spc' = "raised"
                  /\ tag_failed' = FALSE
                  /\ UNCHANGED <<pending_instances, name_tags>>
    /\ UNCHANGED <<nameVars, tag_next, seen_running, notStart>>

\* the pairs of zip(pending_instances, pending_names)
zip(a, b) ==
    [k \in 1..(IF Len(a) < Len(b) THEN Len(a) ELSE Len(b)) |-> <<a[k], b[k]>>]

\* a tagging that gives every instance the first name
tag_value_first(k) == zip(pending_instances, pending_names)[1][2]

\* the name of the k-th pair of the tagging loop
tag_value(k) == zip(pending_instances, pending_names)[k][2]

\* one pass of the tagging loop: server.wait_until_running(), then
\* server.create_tags(Tags=[{'Key': 'Name', 'Value': name}]); either call
\* may raise, and the exception leaves start. The loop over, start returns
\* pending_instances.
TagInstance ==
    /\ spc = "created"
    /\ IF tag_next > Len(zip(pending_instances, pending_names))
          THEN /\ spc' = "returned"
               /\ UNCHANGED <<tag_next, seen_running, name_tags, tag_failed>>
          ELSE LET server == zip(pending_instances, pending_names)[tag_next][1]
               IN  \/ /\ spc' = "raised"
                      /\ tag_failed' = TRUE
                      /\ UNCHANGED <<tag_next, seen_running, name_tags>>
                   \/ /\ seen_running' = seen_running \cup {server}
                      /\ spc' = "raised"
                      /\ tag_failed' = TRUE
                      /\ UNCHANGED <<tag_next, name_tags>>
                   \/ /\ seen_running' = seen_running \cup {server}
                      /\ name_tags' = [name_tags EXCEPT
                                          ![server] = tag_value(tag_next)]
                      /\ tag_next' = tag_next + 1
                      /\ UNCHANGED <<spc, tag_failed>>
    /\ UNCHANGED <<nameVars, creates, pending_instances, notStart>>

StartNext ==
    \/ StartCall
    \/ NameBranch
    \/ NameLoop
    \/ NameLoopExit
    \/ CreateInstances
    \/ TagInstance

\* ------------------------------------------------------------------------
\* The provider
\* ------------------------------------------------------------------------

VMs == 1..NumVM

\* the lifecycle states; the engine tells running and terminated from the rest
States == {"pending", "running", "shutting-down", "terminated"}

\* the fleets: every instance in some state; an instance that is still
\* pending has no public address, any other may have one or not
Fleets ==
    {f \in [VMs -> [state : States, ip : BOOLEAN]] :
        \A i \in VMs : f[i].state = "pending" => ~f[i].ip}

\* the Name tag of an instance; instance 1 carries no Name tag
HasNameTag(i) == i # 1
NameTag(i) == <<"node", i>>

\* the public address of instance i, when it has one
Address(i) == i

\* client.describe_instances(InstanceIds=ids): the records of the instances
\* whose id is listed, in the provider's order; an empty InstanceIds is no
\* restriction, the records of all instances
describe_instances(ids) ==
    SelectSeq([k \in 1..NumVM |-> k],
              LAMBDA i : /\ vm_state[i] # "gone"
                         /\ ids = <<>> \/ i \in Range(ids))

\* an instance moves on in its lifecycle while a wait or a terminate is
\* under way; its public address may come with 'running' and may go when it
\* shuts down
ProviderStep ==
    /\ \/ wpc \notin {"idle", "returned", "raised"}
       \/ tpc \in {"request", "poll", "sleep"}
    /\ \E i \in VMs :
          /\ \/ /\ vm_state[i] = "pending"
                /\ vm_state' = [vm_state EXCEPT ![i] = "running"]
                /\ \E b \in BOOLEAN : vm_ip' = [vm_ip EXCEPT ![i] = b]
             \/ /\ vm_state[i] = "running"
                /\ vm_state' = [vm_state EXCEPT ![i] = "shutting-down"]
                /\ \E b \in {vm_ip[i], FALSE} : vm_ip' = [vm_ip EXCEPT ![i] = b]
             \/ /\ vm_state[i] = "shutting-down"
                /\ vm_state' = [vm_state EXCEPT ![i] = "terminated"]
                /\ \E b \in {vm_ip[i], FALSE} : vm_ip' = [vm_ip EXCEPT ![i] = b]
          /\ reached_at' = IF /\ i \in Range(w_instances)
                              /\ vm_state'[i] = w_state
                              /\ reached_at[i] < 0
                              THEN [reached_at EXCEPT ![i] = delta]
                              ELSE reached_at
    /\ UNCHANGED <<wpc, w_instances, w_state, w_timeout, delta, check_ids,
                   w_status, w_data, polls, probed, confirmed, requests,
                   missed, notWait>>

\* ------------------------------------------------------------------------
\* Swarm.wait, wait_running, wait_ssh, wait_terminated, get_status
\* ------------------------------------------------------------------------

\* the timeouts a wait is called with
Timeouts == {k * RunningLoopWait : k \in 0..MaxSleeps}

\* wait(instances, state, timeout): the branch for the state is entered,
\* 'start = time.time()' and the first working set
WaitCall(n, st, t) ==
    /\ w_instances' = [k \in 1..n |-> k]
    /\ check_ids' = [k \in 1..n |-> k]
    /\ w_state' = st
    /\ w_timeout' = t
    /\ wpc' = "wait_" \o st
    /\ reached_at' = [i \in VMs |->
                         IF i <= n /\ vm_state[i] = st THEN 0 ELSE -1]
    /\ delta' = 0
    /\ w_status' = 0
    /\ w_data' = <<>>
    /\ polls' = 0
    /\ probed' = {}
    /\ confirmed' = {}
    /\ requests' = {}
    /\ missed' = {}
    /\ UNCHANGED <<provVars, notWait>>

\* a wait for a list of instances
Wait ==
    /\ wpc = "idle"
    /\ \E n \in 1..NumVM, st \in {"running", "ssh", "terminated"},
          t \in Timeouts : WaitCall(n, st, t)

\* a wait for the empty list (a selection that matched no instance)
WaitEmpty ==
    /\ wpc = "idle"
    /\ \E st \in {"running", "ssh", "terminated"}, t \in Timeouts :
          WaitCall(0, st, t)

\* instance.terminate(): a pending or running instance starts to shut down
terminate_instances(ids) ==
    [i \in VMs |-> IF i \in ids /\ vm_state[i] \in {"pending", "running"}
                      THEN "shutting-down" ELSE vm_state[i]]

\* the provider's instances after it served requests of the kinds 'reqs'
\* about the instances 'ids': describe_instances changes nothing
Serve(reqs, ids) ==
    IF "terminate" \in reqs THEN terminate_instances(ids) ELSE vm_state

\* the requests one pass of wait_running / wait_terminated sends
PollRequestsCleanup == {"describe_instances", "terminate"}

PollRequests == {"describe_instances"}

\* the requests one pass of wait_ssh sends: none, it runs 'nc' only
ProbeRequests == {}

\* the ids asked for that the response has no record of
absent(ids) == {i \in Range(ids) : vm_state[i] = "gone"}

\* the ids of the described instances that are not in state 'target'
next_check(ids, target) ==
    SelectSeq(describe_instances(ids), LAMBDA i : vm_state[i] # target)

\* 'if delta > timeout: break'
TimedOutEarly == delta >= w_timeout

TimedOut == delta > w_timeout

\* the end of one pass of a wait loop that leaves 'left' unsatisfied:
\* finished, timed out, or sleep and go round again
LoopEnd(left, loopwait, reqs) ==
    /\ check_ids' = left
    /\ polls' = polls + 1
    /\ requests' = requests \cup reqs
    /\ vm_state' = Serve(reqs, Range(left))
    /\ IF Len(left) = 0 \/ TimedOut
          THEN /\ w_status' = Len(left)
               /\ wpc' = "get_status"
               /\ UNCHANGED delta
          ELSE /\ delta' = delta + loopwait
               /\ UNCHANGED <<wpc, w_status>>
    /\ UNCHANGED <<w_instances, w_state, w_timeout, w_data, reached_at,
                   vm_ip, notWait>>

\* one pass of the loop of wait_running
WaitRunning ==
    /\ wpc = "wait_running"
    /\ LoopEnd(next_check(check_ids, "running"), RunningLoopWait,
               PollRequests)
    /\ confirmed' = confirmed \cup
                       {i \in Range(check_ids) : vm_state[i] = "running"}
    /\ missed' = missed \cup absent(check_ids)
    /\ UNCHANGED probed

\* one pass of the loop of wait_terminated
WaitTerminated ==
    /\ wpc = "wait_terminated"
    /\ LoopEnd(next_check(check_ids, "terminated"), TerminatedLoopWait,
               PollRequests)
    /\ missed' = missed \cup absent(check_ids)
    /\ UNCHANGED <<probed, confirmed>>

\* one pass of the loop of wait_ssh: 'nc -z' to port 22 of every instance
\* left; only a running instance with a public address can answer, and it
\* need not
WaitSsh ==
    /\ wpc = "wait_ssh"
    /\ \E ok \in SUBSET {i \in Range(check_ids) :
                            vm_state[i] = "running" /\ vm_ip[i]} :
          LoopEnd(SelectSeq(check_ids, LAMBDA i : i \notin ok),
                  ConnectLoopWait, ProbeRequests)
    /\ probed' = probed \cup Range(check_ids)
    /\ UNCHANGED <<confirmed, missed>>

\* get_status(instances): one (name, ip, state) tuple for every described
\* instance whose record has a PublicIpAddress
get_status(insts) ==
    LET withip == SelectSeq(describe_instances(insts), LAMBDA i : vm_ip[i])
    IN  [k \in 1..Len(withip) |->
            [name  |-> IF HasNameTag(withip[k])
                          THEN NameTag(withip[k]) ELSE <<>>,
             ip    |-> Address(withip[k]),
             state |-> vm_state[withip[k]]]]

\* wait: return (status, self.get_status(instances)); for 'ssh' every state
\* of the list is replaced by 'ssh'
WaitReturn ==
    /\ wpc = "get_status"
    /\ LET data == get_status(w_instances)
       IN  w_data' = IF w_state = "ssh"
                        THEN [k \in 1..Len(data) |->
                                 [data[k] EXCEPT !.state = "ssh"]]
                        ELSE data
    /\ wpc' = "returned"
    /\ requests' = requests \cup {"describe_instances"}
    /\ vm_state' = Serve({"describe_instances"}, Range(w_instances))
    /\ missed' = missed \cup absent(w_instances)
    /\ UNCHANGED <<w_instances, w_state, w_timeout, delta, check_ids,
                   w_status, reached_at, polls, probed, confirmed, vm_ip,
                   notWait>>

\* a describe_instances that is asked for an id the provider has no record
\* of may also fail as a whole: the exception ends the wait
WaitNotFound ==
    /\ \/ wpc \in {"wait_running", "wait_terminated"} /\ absent(check_ids) # {}
       \/ wpc = "get_status" /\ absent(w_instances) # {}
    /\ wpc' = "raised"
    /\ UNCHANGED <<w_instances, w_state, w_timeout, delta, check_ids,
                   w_status, w_data, reached_at, polls, probed, confirmed,
                   requests, missed, provVars, notWait>>

\* the provider drops the record of an instance some time after it
\* terminated
ProviderForget ==
    /\ wpc \notin {"idle", "returned", "raised"}
    /\ \E i \in VMs :
          /\ vm_state[i] = "terminated"
          /\ vm_state' = [vm_state EXCEPT ![i] = "gone"]
          /\ vm_ip' = [vm_ip EXCEPT ![i] = FALSE]
    /\ UNCHANGED <<waitVars, notWait>>

WaitInit ==
    /\ wpc = "idle"
    /\ w_instances = <<>>
    /\ w_state = "running"
    /\ w_timeout = 0
    /\ delta = 0
    /\ check_ids = <<>>
    /\ w_status = 0
    /\ w_data = <<>>
    /\ reached_at = [i \in VMs |-> -1]
    /\ polls = 0
    /\ probed = {}
    /\ confirmed = {}
    /\ requests = {}
    /\ missed = {}

\* the fleet the provider holds: any
ProviderInit ==
    \E f \in Fleets :
        /\ vm_state = [i \in VMs |-> f[i].state]
        /\ vm_ip = [i \in VMs |-> f[i].ip]

\* the fleet the provider holds, with instances it has no record of any
\* more
ProviderInitGone ==
    \E f \in [VMs -> [state : States \cup {"gone"}, ip : BOOLEAN]] :
        /\ \A i \in VMs : f[i].state \in {"pending", "gone"} => ~f[i].ip
        /\ vm_state = [i \in VMs |-> f[i].state]
        /\ vm_ip = [i \in VMs |-> f[i].ip]

\* a fleet of running instances with public addresses
ProviderQuiet ==
    /\ vm_state = [i \in VMs |-> "running"]
    /\ vm_ip = [i \in VMs |-> TRUE]

WaitNext ==
    \/ Wait
    \/ WaitRunning
    \/ WaitTerminated
    \/ WaitSsh
    \/ WaitReturn
    \/ ProviderStep

\* a wait for any list, the empty one included, on a provider that may have
\* dropped instances
WaitAnyNext ==
    \/ WaitNext
    \/ WaitEmpty
    \/ WaitNotFound
    \/ ProviderForget

\* ------------------------------------------------------------------------
\* Swarm.terminate
\* ------------------------------------------------------------------------

\* terminate(instances, wait): with an empty list neither loop has a pass
TerminateCall ==
    /\ tpc = "idle"
    /\ \E n \in 0..NumVM, wait \in BOOLEAN :
          /\ t_instances' = [k \in 1..n |-> k]
          /\ t_listed' = [k \in 1..n |-> k]
          /\ t_wait' = wait
          /\ tpc' = IF n > 0 THEN "request" ELSE "returned"
    /\ t_requested' = {}
    /\ t_fetched' = {}
    /\ UNCHANGED <<provVars, notTerm>>

\* a loop pass that asks for the termination of the whole list at once
to_terminate_all == Range(t_listed)

\* the instance of this pass of 'for i in instances'
to_terminate == {t_instances[Cardinality(t_requested) + 1]}

\* one pass of 'for i in instances: i.terminate()'; after the last one,
\* without wait, that is all
TerminateRequest ==
    /\ tpc = "request"
    /\ t_requested' = t_requested \cup to_terminate
    /\ vm_state' = terminate_instances(to_terminate)
    /\ tpc' = IF t_requested' # Range(t_listed) THEN "request"
              ELSE IF t_wait THEN "poll" ELSE "returned"
    /\ UNCHANGED <<t_instances, t_wait, t_listed, t_fetched, vm_ip, notTerm>>

\* a test that keeps only the instances that have not begun to shut down
still_up(i) == vm_state[i] \in {"pending", "running"}

\* refreshed = self.ec2.Instance(i.id);
\* refreshed.state['Name'] != 'terminated'
still_polled(i) == vm_state[i] # "terminated"

\* one pass of 'while instances:': the instances not yet terminated are
\* kept
TerminatePoll ==
    /\ tpc = "poll"
    /\ t_instances' = SelectSeq(t_instances, still_polled)
    /\ t_fetched' = t_fetched \cup {i \in Range(t_instances) :
                                       vm_state[i] = "terminated"}
    /\ tpc' = "sleep"
    /\ UNCHANGED <<t_wait, t_listed, t_requested>>
    /\ UNCHANGED <<provVars, notTerm>>

\* time.sleep(self.WaittimeStopServers), then the test of 'while instances:'
TerminateSleep ==
    /\ tpc = "sleep"
    /\ tpc' = IF t_instances = <<>> THEN "returned" ELSE "poll"
    /\ UNCHANGED <<t_instances, t_wait, t_listed, t_requested, t_fetched,
                   provVars, notTerm>>

TermInit ==
    /\ tpc = "idle"
    /\ t_instances = <<>>
    /\ t_wait = FALSE
    /\ t_listed = <<>>
    /\ t_requested = {}
    /\ t_fetched = {}

TerminateStep == TerminateRequest \/ TerminatePoll \/ TerminateSleep

TerminateNext ==
    \/ TerminateCall
    \/ TerminateRequest
    \/ TerminatePoll
    \/ TerminateSleep
    \/ ProviderStep

\* ------------------------------------------------------------------------
\* The replace plugins: sw_replace.replace and vm_replace.vm_replace
\* ------------------------------------------------------------------------

\* the names the instances carry and the names given as arguments
InstanceNames == {<<"node", 1>>, <<"web", 1>>}

\* the prefixes given with -p
Prefixes == {<<"node">>, <<"web">>}

\* the launch attributes replace takes from the command line
Fields == {"image", "flavour", "key"}

\* instance_name.startswith(name)
startswith(nm, prefix) ==
    /\ Len(prefix) <= Len(nm)
    /\ SubSeq(nm, 1, Len(prefix)) = prefix

\* Swarm.instances(): the running instances
running_instances ==
    SelectSeq([k \in 1..NumVM |-> k], LAMBDA i : vm_state[i] = "running")

\* sw_replace.replace is called: the options are parsed; without a prefix
\* and without names it prints its usage and returns 1
ReplaceCall ==
    /\ rpc = "idle"
    /\ \E tags \in [VMs -> InstanceNames \cup {None}],
          prefix \in Prefixes \cup {None},
          args \in SUBSET InstanceNames,
          over \in SUBSET Fields :
          /\ r_tags' = tags
          /\ r_name' = prefix
          /\ r_args' = args
          /\ r_over' = over
          /\ rpc' = IF args = {} /\ prefix = None THEN "returned"
                                                 ELSE "select"
    /\ UNCHANGED <<replace_instances, r_selected, calls, notReplace>>

\* the prefix selection of 'all_instances'
prefix_selection ==
    IF r_name # None
       THEN SelectSeq(running_instances,
                      LAMBDA i : startswith(r_tags[i], r_name))
       ELSE running_instances

\* the selection by the given names among 'insts'
named_selection(insts) ==
    IF r_args # {}
       THEN SelectSeq(insts, LAMBDA i : r_tags[i] \in r_args)
       ELSE insts

\* all_instances = s.instances() and the two selection loops;
\* utils.get_instance_name gives None for an instance without Name tag and
\* None.startswith raises AttributeError
ReplaceSelect ==
    /\ rpc = "select"
    /\ IF r_name # None /\ \E i \in Range(running_instances) : r_tags[i] = None
          THEN /\ rpc' = "raised"
               /\ UNCHANGED <<replace_instances, r_selected>>
          ELSE /\ rpc' = "describe"
               /\ replace_instances' = named_selection(prefix_selection)
               /\ r_selected' = TRUE
    /\ UNCHANGED <<r_tags, r_name, r_args, r_over, calls, notReplace>>

\* data = s.describe_instances(replace_instances): Swarm.describe_instances
\* reads i['PublicIpAddress'] of every record, a KeyError when it is absent
ReplaceDescribe ==
    /\ rpc = "describe"
    /\ calls' = Append(calls, [op |-> "describe", ids |-> replace_instances])
    /\ rpc' = IF \E i \in Range(describe_instances(replace_instances)) :
                    ~vm_ip[i]
                 THEN "raised" ELSE "resolve"
    /\ UNCHANGED <<r_tags, r_name, r_args, r_over, replace_instances,
                   r_selected, notReplace>>

\* 'if not new_name:' reads a local that is assigned only further down:
\* UnboundLocalError
ReplaceResolve ==
    /\ rpc = "resolve"
    /\ rpc' = "raised"
    /\ UNCHANGED <<r_tags, r_name, r_args, r_over, replace_instances,
                   r_selected, calls, notReplace>>

\* vm_replace.vm_replace: swm.servers() is no method of Swarm, an
\* AttributeError before any instance is looked at
VmReplace ==
    /\ rpc = "idle"
    /\ rpc' = "raised"
    /\ UNCHANGED <<r_tags, r_name, r_args, r_over, replace_instances,
                   r_selected, calls, notReplace>>

ReplaceInit ==
    /\ rpc = "idle"
    /\ r_tags = [i \in VMs |-> None]
    /\ r_name = None
    /\ r_args = {}
    /\ r_over = {}
    /\ replace_instances = <<>>
    /\ r_selected = FALSE
    /\ calls = <<>>

ReplaceNext ==
    \/ ReplaceCall
    \/ ReplaceSelect
    \/ ReplaceDescribe
    \/ ReplaceResolve
    \/ VmReplace

\* ------------------------------------------------------------------------
\* The selectors: Swarm.filter, Swarm.union, Swarm.intersection
\* ------------------------------------------------------------------------

\* the instance lists: any order, an instance may be in a list twice
Lists == UNION {[1..n -> 1..MaxSel] : n \in 0..MaxSel}

\* a filter is a function of one instance; it is told by the instances it
\* returns a true value for
Filters == SUBSET (1..MaxSel)

FilterLists == UNION {[1..n -> Filters] : n \in 0..MaxFilters}

\* a loop over the filters that appends at the first filter that holds
RECURSIVE passes_some(_, _)
passes_some(s, fs) ==
    /\ fs # <<>>
    /\ \/ s \in Head(fs)
       \/ passes_some(s, Tail(fs))

\* 'for f in args: if not f(s): break' followed by 'else:': whether the
\* loop over the filters ends without break
RECURSIVE passes(_, _)
passes(s, fs) ==
    IF fs = <<>> THEN TRUE
    ELSE IF s \notin Head(fs) THEN FALSE
    ELSE passes(s, Tail(fs))

\* Swarm.filter(instances, *args)
filter(insts, fs) == SelectSeq(insts, LAMBDA s : passes(s, fs))

\* a union without the test 'if s not in result'
RECURSIVE union_all(_, _)
union_all(res, insts2) ==
    IF insts2 = <<>> THEN res
    ELSE union_all(Append(res, Head(insts2)), Tail(insts2))

\* Swarm.union(instances1, instances2): the list 'result' after the loop
\* over instances2; 'result' is the list instances1 itself
RECURSIVE union(_, _)
union(res, insts2) ==
    IF insts2 = <<>> THEN res
    ELSE union(IF Head(insts2) \notin Range(res)
                  THEN Append(res, Head(insts2)) ELSE res,
               Tail(insts2))

\* an intersection without the test 's1 == s2'
intersection_first(insts1, insts2) ==
    IF insts2 = <<>> THEN <<>> ELSE insts1

\* Swarm.intersection(instances1, instances2): s1 is appended once for
\* every s2 of instances2 that equals it
RECURSIVE intersection(_, _)
intersection(insts1, insts2) ==
    IF insts1 = <<>> THEN <<>>
    ELSE SelectSeq(insts2, LAMBDA s2 : Head(insts1) = s2)
            \o intersection(Tail(insts1), insts2)

\* a call of Swarm.filter
Filter ==
    /\ s_op = "none"
    /\ \E insts \in Lists, fs \in FilterLists :
          /\ s_in1' = insts
          /\ s_f' = fs
          /\ s_out' = filter(insts, fs)
          /\ s_arg1' = insts
    /\ s_op' = "filter"
    /\ UNCHANGED <<s_in2, notSel>>

\* a call of Swarm.union: the list returned is the first list, grown
Union ==
    /\ s_op = "none"
    /\ \E insts1 \in Lists, insts2 \in Lists :
          /\ s_in1' = insts1
          /\ s_in2' = insts2
          /\ s_out' = union(insts1, insts2)
          /\ s_arg1' = union(insts1, insts2)
    /\ s_op' = "union"
    /\ UNCHANGED <<s_f, notSel>>

\* a call of Swarm.intersection
Intersection ==
    /\ s_op = "none"
    /\ \E insts1 \in Lists, insts2 \in Lists :
          /\ s_in1' = insts1
          /\ s_in2' = insts2
          /\ s_out' = intersection(insts1, insts2)
          /\ s_arg1' = insts1
    /\ s_op' = "intersection"
    /\ UNCHANGED <<s_f, notSel>>

SelInit ==
    /\ s_op = "none"
    /\ s_in1 = <<>>
    /\ s_in2 = <<>>
    /\ s_f = <<>>
    /\ s_arg1 = <<>>
    /\ s_out = <<>>

SelNext ==
    \/ Filter
    \/ Union
    \/ Intersection

\* ------------------------------------------------------------------------
\* Swarm.copy (swarm.py lines 669-723)
\* ------------------------------------------------------------------------

\* the status scp comes back with for an instance
scp_status(i) == IF i = c_refused THEN 1 ELSE 0

\* copy(instances, src, dst): nothing has been started yet
Copy ==
    /\ cpc = "idle"
    /\ \E n \in 0..MaxCopy :
          /\ c_instances' = [k \in 1..n |-> k]
          /\ \E nokey \in 0..n, refused \in 0..n :
                /\ c_nokey' = nokey
                /\ c_refused' = refused
          /\ cpc' = IF n = 0 THEN "collect" ELSE "start"
    /\ c_next' = 1
    /\ c_threads' = {}
    /\ result_queue' = <<>>
    /\ c_result' = <<>>
    /\ UNCHANGED notCopy

\* one pass of 'for instance in instances': guess_key raises when no file
\* of ssh_dir matches the key name, and the exception leaves copy; else a
\* CopyThread is started for the instance
CopyStart ==
    /\ cpc = "start"
    /\ IF c_instances[c_next] = c_nokey
          THEN /\ cpc' = "raised"
               /\ UNCHANGED <<c_next, c_threads>>
          ELSE /\ c_threads' = c_threads \cup {c_instances[c_next]}
               /\ c_next' = c_next + 1
               /\ cpc' = IF c_next = Len(c_instances)
                             THEN "collect" ELSE "start"
    /\ UNCHANGED <<c_instances, c_nokey, c_refused, result_queue, c_result,
                   notCopy>>

\* CopyThread.run: run the scp command, queue [output, status]
CopyThreadRun ==
    /\ \E i \in c_threads :
          /\ c_threads' = c_threads \ {i}
          /\ result_queue' = Append(result_queue,
                                     [instance |-> i, status |-> scp_status(i)])
    /\ UNCHANGED <<cpc, c_instances, c_nokey, c_refused, c_next, c_result,
                   notCopy>>

\* one pass of the outer collecting loop: empty the queue into result
CopyCollect ==
    /\ cpc = "collect"
    /\ result_queue # <<>>
    /\ c_result' = c_result \o result_queue
    /\ result_queue' = <<>>
    /\ UNCHANGED <<cpc, c_instances, c_nokey, c_refused, c_next, c_threads,
                   notCopy>>

\* the collecting loop ends: no thread but the caller, queue empty
CopyReturn ==
    /\ cpc = "collect"
    /\ c_threads = {}
    /\ result_queue = <<>>
    /\ cpc' = "returned"
    /\ UNCHANGED <<c_instances, c_nokey, c_refused, c_next, c_threads,
                   result_queue, c_result, notCopy>>

CopyInit ==
    /\ cpc = "idle"
    /\ c_instances = <<>>
    /\ c_nokey = 0
    /\ c_refused = 0
    /\ c_next = 1
    /\ c_threads = {}
    /\ result_queue = <<>>
    /\ c_result = <<>>

CopyNext ==
    \/ Copy
    \/ CopyStart
    \/ CopyThreadRun
    \/ CopyCollect
    \/ CopyReturn

\* ------------------------------------------------------------------------
\* The stop plugins: stop of sw_stop.py (the command 'swarm stop') and the
\* older stop kept in sw_replace.py (lines 446-573)
\* ------------------------------------------------------------------------

\* what a user may type at the prompt, as sequences of characters
Answers ==
    {<<>>, <<"y">>, <<"n">>, <<"Y">>, <<"N">>, <<" ">>, <<" ", "y">>,
     <<"y", " ">>, <<"y", "e", "s">>, <<"n", "o">>, <<"o", "y">>}

\* str.strip(): the string without its leading and trailing blanks
RECURSIVE strip(_)
strip(str) ==
    IF str = <<>> THEN <<>>
    ELSE IF Head(str) = " " THEN strip(Tail(str))
    ELSE IF str[Len(str)] = " " THEN strip(SubSeq(str, 1, Len(str) - 1))
    ELSE str

\* str.lower()
lower(str) ==
    [k \in 1..Len(str) |-> CASE str[k] = "Y" -> "y"
                              [] str[k] = "N" -> "n"
                              [] OTHER -> str[k]]

\* the test 'len(answer) == 0 or answer[0] != "y"', negated: whether the
\* run goes on to terminate
proceeds(answer) == ~(Len(answer) = 0 \/ answer[1] # "y")

\* stop of sw_stop.py: the argument parser is built with
\* 'default=defaults.State' (line 77), and swarmcore/defaults.py defines no
\* State: the AttributeError leaves stop before any argument is looked at
Stop ==
    /\ kpc = "idle"
    /\ \E given \in SUBSET {"prefix", "state"}, y \in BOOLEAN :
          /\ k_given' = given
          /\ yes' = y
    /\ kpc' = "raised"
    /\ UNCHANGED <<k_status, filtered_instances, typed, prompted, terminated,
                   notStop>>

\* stop of sw_replace.py, from its options to its return: state is preset
\* to 'running', there is no option --yes, sel is what the filters select
StopLegacy ==
    /\ kpc = "idle"
    /\ \E given \in SUBSET {"prefix", "state"},
          sel \in {l \in Lists : NoDup(l)}, raw \in Answers :
          LET name_prefix == IF "prefix" \in given THEN "given" ELSE "None"
              state == IF "state" \in given THEN "given" ELSE "running"
          IN  /\ k_given' = given
              /\ IF name_prefix = "None" /\ state = "None"
                    THEN /\ k_status' = 1
                         /\ filtered_instances' = <<>>
                         /\ typed' = <<>>
                         /\ prompted' = -1
                         /\ terminated' = <<>>
                    ELSE /\ k_status' = 0
                         /\ filtered_instances' = sel
                         /\ IF Len(sel) = 0
                               THEN /\ typed' = <<>>
                                    /\ prompted' = -1
                                    /\ terminated' = <<>>
                               ELSE /\ typed' = raw
                                    /\ prompted' = Len(sel)
                                    /\ terminated' =
                                          IF proceeds(lower(strip(raw)))
                                             THEN <<sel>> ELSE <<>>
    /\ yes' = FALSE
    /\ kpc' = "returned"
    /\ UNCHANGED notStop

StopInit ==
    /\ kpc = "idle"
    /\ k_given = {}
    /\ k_status = -1
    /\ filtered_instances = <<>>
    /\ yes = FALSE
    /\ typed = <<>>
    /\ prompted = -1
    /\ terminated = <<>>

StopNext ==
    \/ Stop
    \/ StopLegacy

\* ------------------------------------------------------------------------
\* classify.classify (classify.py)
\* ------------------------------------------------------------------------

\* the phrases the classifiers look for in a console log
Phrases ==
    {"UNEXPECTED INCONSISTENCY; RUN fsck MANUALLY",
     "failed to bind to LDAP server",
     "Read-only file system",
     "Remounting filesystem read-only",
     "ext3_abort called",
     "request_module: runaway loop",
     " login: ",
     "Network is unreachable"}

\* a console log: the phrases it contains, or the log that is just '?'
Consoles ==
    {[has |-> h, just_q |-> q] : h \in SUBSET Phrases, q \in {FALSE}}
        \cup {[has |-> {}, just_q |-> TRUE]}

\* classifier functions, in the order they are applied
classifiers ==
    <<"class_fsck_manual", "class_ldap", "class_rofs", "class_ioerror",
      "class_nologin", "class_runaway_loop", "class_network_unreachable",
      "class_no_log">>

\* what classifier c returns for a log: a label, or "None"
class(c, log) ==
    CASE c = "class_fsck_manual" ->
            IF "UNEXPECTED INCONSISTENCY; RUN fsck MANUALLY" \in log.has
               THEN "FSCK_manual" ELSE "None"
      [] c = "class_ldap" ->
            IF "failed to bind to LDAP server" \in log.has
               THEN "LDAP failure" ELSE "None"
      [] c = "class_rofs" ->
            IF \/ "Read-only file system" \in log.has
               \/ "Remounting filesystem read-only" \in log.has
               THEN "ROFS" ELSE "None"
      [] c = "class_ioerror" ->
            IF /\ "ext3_abort called" \in log.has
               /\ "Read-only file system" \notin log.has
               /\ "Remounting filesystem read-only" \notin log.has
               THEN "IOERROR" ELSE "None"
      [] c = "class_nologin" ->
            IF "request_module: runaway loop" \in log.has THEN "None"
            ELSE IF " login: " \notin log.has
               THEN "HUNG, no login prompt" ELSE "None"
      [] c = "class_runaway_loop" ->
            IF "request_module: runaway loop" \in log.has
               THEN "RUNAWAY_LOOP" ELSE "None"
      [] c = "class_network_unreachable" ->
            IF "Network is unreachable" \in log.has
               THEN "NETWORK_UNREACHABLE" ELSE "None"
      [] c = "class_no_log" ->
            IF log.just_q THEN "Log was just '?'" ELSE "None"

\* a loop that goes through all the classifiers and keeps the last label
RECURSIVE classify_last(_, _)
classify_last(cs, log) ==
    IF cs = <<>> THEN "OK"
    ELSE IF classify_last(Tail(cs), log) # "OK"
            THEN classify_last(Tail(cs), log)
    ELSE IF class(Head(cs), log) # "None" THEN class(Head(cs), log)
    ELSE "OK"

\* 'for c in classifiers: result = c(console); if result is not None:
\* return result', then 'return "OK"', for the classifiers cs
RECURSIVE classify(_, _)
classify(cs, log) ==
    IF cs = <<>> THEN "OK"
    ELSE IF class(Head(cs), log) # "None" THEN class(Head(cs), log)
    ELSE classify(Tail(cs), log)

\* the files a call of classifier c creates and writes: class_nologin
\* does tempfile.mkstemp(prefix='vm_health_') and writes the log to the
\* new file before it looks at the log
writes(c, log) == IF c = "class_nologin" THEN <<log>> ELSE <<>>

\* the files written by the classifiers that classify(console) calls
RECURSIVE classify_writes(_, _)
classify_writes(cs, log) ==
    IF cs = <<>> THEN <<>>
    ELSE IF class(Head(cs), log) # "None" THEN writes(Head(cs), log)
    ELSE writes(Head(cs), log) \o classify_writes(Tail(cs), log)

\* classify(console)
Classify ==
    /\ verdict = "none yet"
    /\ \E log \in Consoles :
          /\ console' = log
          /\ verdict' = classify(classifiers, log)
          /\ tmp_files' = tmp_files \o classify_writes(classifiers, log)
    /\ UNCHANGED notClass

ClassInit ==
    /\ console = [has |-> {}, just_q |-> FALSE]
    /\ verdict = "none yet"
    /\ tmp_files = <<>>

ClassNext == Classify

\* ------------------------------------------------------------------------
\* Swarm.start called by two programs at the same time, against the same
\* provider account
\* ------------------------------------------------------------------------

\* the largest num of a concurrent start
MaxConc == 2

Callers == {1, 2}

\* 'while number_names < num' of start, from instance_number i with the
\* names acc collected: the names collected at the end, or <<"raise">> for
\* the runaway exception. A template without placeholder formats to the
\* same name in every pass: once that name is in use every later pass
\* collides, up to the pass RunawayLimit + 1 that raises.
RECURSIVE search(_, _, _, _, _)
search(t, n, used, i, acc) ==
    IF ~(Len(acc) < n) THEN acc
    ELSE IF Format(t, i + 1) \in used
            THEN IF i + 1 > RunawayLimit \/ ~HasNumber(t) THEN <<"raise">>
                 ELSE search(t, n, used, i + 1, acc)
    ELSE search(t, n, used \cup {Format(t, i + 1)}, i + 1,
                Append(acc, Format(t, i + 1)))

\* pending_names of start(n, t) when the names in 'used' are in use
generate_names(t, n, used) ==
    IF n > 1 \/ HasNumber(t) THEN search(t, n, used, 0, <<>>)
    ELSE IF n = 1 THEN <<Format(t, 0)>>
    ELSE <<>>

\* start(num, name, ...) of caller p up to the create call: the names in
\* use are the Name tags of the instances self.instances() returns, the
\* running ones, read once
ConcStart(p) ==
    /\ conc_pc[p] = "idle"
    /\ \E n \in 1..MaxConc, t \in Templates :
          LET names_used == {ec2_instances[k].name :
                               k \in {j \in DOMAIN ec2_instances :
                                        ec2_instances[j].state = "running"}}
              new_names == generate_names(t, n, names_used)
          IN  /\ conc_num' = [conc_num EXCEPT ![p] = n]
              /\ IF new_names = <<"raise">>
                    THEN /\ conc_pc' = [conc_pc EXCEPT ![p] = "raised"]
                         /\ UNCHANGED conc_names
                    ELSE /\ conc_pc' = [conc_pc EXCEPT ![p] = "create"]
                         /\ conc_names' = [conc_names EXCEPT
                                               ![p] = new_names]
    /\ UNCHANGED <<ec2_instances, conc_instances, conc_next, notConc>>

\* pending_instances = self.ec2.create_instances(MinCount=num, MaxCount=num)
ConcCreate(p) ==
    /\ conc_pc[p] = "create"
    /\ ec2_instances' = ec2_instances \o
           [k \in 1..conc_num[p] |-> [state |-> "pending", name |-> None]]
    /\ conc_instances' = [conc_instances EXCEPT
           ![p] = [k \in 1..conc_num[p] |-> Len(ec2_instances) + k]]
    /\ conc_next' = [conc_next EXCEPT ![p] = 1]
    /\ conc_pc' = [conc_pc EXCEPT ![p] = "wait"]
    /\ UNCHANGED <<conc_num, conc_names, notConc>>

\* the tagging loop of caller p: server.wait_until_running() returns when
\* the instance is running, then server.create_tags(...) sets its Name
ConcTag(p) ==
    /\ LET pairs == zip(conc_instances[p], conc_names[p])
       IN  \/ /\ conc_pc[p] = "wait"
              /\ IF conc_next[p] > Len(pairs)
                    THEN /\ conc_pc' = [conc_pc EXCEPT ![p] = "returned"]
                         /\ UNCHANGED ec2_instances
                    ELSE /\ ec2_instances' = [ec2_instances EXCEPT
                                ![pairs[conc_next[p]][1]].state = "running"]
                         /\ conc_pc' = [conc_pc EXCEPT ![p] = "tag"]
              /\ UNCHANGED conc_next
           \/ /\ conc_pc[p] = "tag"
              /\ ec2_instances' = [ec2_instances EXCEPT
                     ![pairs[conc_next[p]][1]].name = pairs[conc_next[p]][2]]
              /\ conc_next' = [conc_next EXCEPT ![p] = @ + 1]
              /\ conc_pc' = [conc_pc EXCEPT ![p] = "wait"]
    /\ UNCHANGED <<conc_num, conc_names, conc_instances, notConc>>

ConcInit ==
    /\ ec2_instances = <<>>
    /\ conc_pc = [p \in Callers |-> "idle"]
    /\ conc_num = [p \in Callers |-> 0]
    /\ conc_names = [p \in Callers |-> <<>>]
    /\ conc_instances = [p \in Callers |-> <<>>]
    /\ conc_next = [p \in Callers |-> 1]

ConcNext == \E p \in Callers : ConcStart(p) \/ ConcCreate(p) \/ ConcTag(p)

\* ------------------------------------------------------------------------
\* Specifications
\* ------------------------------------------------------------------------

Quiet ==
    /\ ExecInit
    /\ StartInit
    /\ WaitInit
    /\ TermInit
    /\ ReplaceInit
    /\ SelInit
    /\ CopyInit
    /\ StopInit
    /\ ClassInit
    /\ ConcInit

Init == Quiet /\ ProviderQuiet

InitWait == Quiet /\ ProviderInit

Next == ExecNext

Spec == Init /\ [][Next]_vars

SpecStart == Init /\ [][StartNext]_vars

\* the thread that called start keeps running
StartStep ==
    NameBranch \/ NameLoop \/ NameLoopExit \/ CreateInstances \/ TagInstance

SpecStartLive == SpecStart /\ WF_vars(StartStep)

SpecWait == InitWait /\ [][WaitNext]_vars

\* a wait that was called goes on: the calling thread is not held up for
\* ever, the next pass of its loop or its return is made in the end
WaitStep == WaitRunning \/ WaitTerminated \/ WaitSsh \/ WaitReturn

SpecWaitLive == SpecWait /\ WF_vars(WaitStep)

InitWaitAny == Quiet /\ ProviderInitGone

SpecWaitAny == InitWaitAny /\ [][WaitAnyNext]_vars

SpecSelect == Init /\ [][SelNext]_vars

SpecCopy == Init /\ [][CopyNext]_vars

SpecStop == Init /\ [][StopNext]_vars

SpecClassify == Init /\ [][ClassNext]_vars

SpecReplace == InitWait /\ [][ReplaceNext]_vars

SpecTerminate == InitWait /\ [][TerminateNext]_vars

\* the thread that called terminate goes on; nothing makes the provider
\* bring an instance to 'terminated'
SpecTerminateLive == SpecTerminate /\ WF_vars(TerminateStep)

\* ------------------------------------------------------------------------
\* Properties of Swarm._apply_threads (checked under Spec)
\* ------------------------------------------------------------------------

\* C1: executor completeness. When _apply_threads returns, the returned list
\* has exactly one entry per submitted instance, however many of the
\* function calls raised.
C1_ExecutorCompleteness ==
    epc = "done" => Len(result) = Len(instances)

\* C2: executor no-duplication. Every instance leaves the input queue at
\* most once, its functions are run at most once, and no two result entries
\* (collected or still queued) stem from the same instance.
C2_NoDuplication ==
    /\ \A i \in 1..MaxInst : taken[i] <= 1 /\ executed[i] <= 1
    /\ NoDup(result \o output_q)

\* more instances than workers were submitted, the call has returned and
\* every instance has its entry: the workers shared the queue to the end
C2_Witness ==
    /\ epc = "done"
    /\ Len(instances) > NumOSThreads
    /\ Len(result) = Len(instances)

\* C3: failure isolation. When _apply_threads returns, every instance whose
\* function call did not raise was taken from the queue, processed and is
\* in the returned list, whatever number of other instances raised.
C3_FailureIsolation ==
    epc = "done" =>
        \A i \in Range(instances) \ raised :
            taken[i] = 1 /\ i \in Range(result)

C5_ReturnsWhenDrained ==
    epc = "done" => pool = EmptyBag /\ input_q = <<>>

\* ------------------------------------------------------------------------
\* Properties of the name search of Swarm.start (checked under SpecStart)
\* ------------------------------------------------------------------------

\* the candidate names name.format(number=1) .. name.format(number=999)
\* that were not in use when the search began
FreeCandidates ==
    {Format(name, i) : i \in 1..RunawayLimit} \ used0

\* C6: name generation uniqueness. Whenever start goes on to create
\* instances for num >= 1, pending_names has exactly num entries, pairwise
\* distinct, none of them a name that was already in use; for templates
\* with and without the {number} placeholder.
C6_NameUniqueness ==
    (spc \in {"create", "created"} /\ num >= 1) =>
        /\ Len(pending_names) = num
        /\ NoDup(pending_names)
        /\ \A k \in DOMAIN pending_names : pending_names[k] \notin used0

\* C7: runaway ceiling. The search loop makes no attempt beyond the one
\* that detects the runaway, never hands out a name built from a number
\* above 999, and does not get to the create call when fewer than num
\* unused names exist among the candidates numbered 1..999.
C7_RunawayCeiling ==
    /\ instance_number <= RunawayLimit + 1
    /\ \A k \in DOMAIN pending_names :
           NumberOf(pending_names[k]) <= RunawayLimit
    /\ (spc \in {"create", "created"} /\ (num > 1 \/ HasNumber(name))) =>
           Cardinality(FreeCandidates) >= num

\* ------------------------------------------------------------------------
\* Properties of Swarm.wait (checked under SpecWait)
\* ------------------------------------------------------------------------

\* the submitted instances
Submitted == Range(w_instances)

\* the entries of the returned status list that stand for instance i
EntriesOf(i) == {k \in DOMAIN w_data : w_data[k].ip = Address(i)}

\* C8: wait convergence. If every submitted instance turns terminated
\* during the wait, later than one poll interval after its start and
\* before the timeout has elapsed, then wait(instances, 'terminated',
\* timeout) returns count 0 and a status list in which every submitted
\* instance appears, marked terminated.
C8_WaitConvergence ==
    ( /\ wpc = "returned"
      /\ w_state = "terminated"
      /\ \A i \in Submitted :
            TerminatedLoopWait <= reached_at[i] /\ reached_at[i] < w_timeout )
    =>
    ( /\ w_status = 0
      /\ \A i \in Submitted :
            \E k \in EntriesOf(i) : w_data[k].state = "terminated" )

\* the submitted instances that never were in the target state
Stragglers == {i \in Submitted : reached_at[i] < 0}

\* C9: wait timeout. When every submitted instance either reached the
\* target state (running or terminated) before the timeout expired and
\* stayed in it, or never reached it, the returned count is the number of
\* those that never reached it, it is non-zero exactly if there is one, and
\* each of them is in the returned list with its true state.
C9_WaitTimeout ==
    ( /\ wpc = "returned"
      /\ w_state \in {"running", "terminated"}
      /\ \A i \in Submitted :
            /\ reached_at[i] <= w_timeout
            /\ reached_at[i] >= 0 => vm_state[i] = w_state )
    =>
    ( /\ w_status = Cardinality(Stragglers)
      /\ w_status # 0 <=> Stragglers # {}
      /\ \A i \in Stragglers :
            \E k \in EntriesOf(i) : w_data[k].state = vm_state[i] )

\* C10: full roster. The status list returned by Swarm.wait has exactly one
\* entry for every submitted instance, and no other entry.
C10_FullRoster ==
    wpc = "returned" =>
        /\ \A i \in Submitted : Cardinality(EntriesOf(i)) = 1
        /\ Len(w_data) = Len(w_instances)


\* ------------------------------------------------------------------------
\* C11: the loop of wait_running, wait_terminated and wait_ssh ends in one
\* of two ways and always ends.  When it has ended at least one pass was
\* made, the count returned is the size of the unsatisfied set, and that set
\* is empty or the elapsed time exceeded the timeout; once it has ended no
\* further pass is made; and a wait that is in its loop leaves it.
\* ------------------------------------------------------------------------

InWaitLoop == wpc \in {"wait_running", "wait_ssh", "wait_terminated"}

WaitEnded == wpc \in {"get_status", "returned"}

C11_WaitOutcomes ==
    /\ [](WaitEnded => /\ polls >= 1
                       /\ w_status = Len(check_ids)
                       /\ (check_ids = <<>> \/ delta > w_timeout))
    /\ [][WaitEnded => polls' = polls]_vars
    /\ InWaitLoop ~> WaitEnded

\* a wait that timed out after it went round its loop more than once
C11_Witness ==
    /\ wpc = "get_status"
    /\ check_ids # <<>>
    /\ delta > w_timeout
    /\ polls > 1


\* ------------------------------------------------------------------------
\* C12: when replace has ended after it selected an instance, the calls it
\* made for it are Describe, Terminate, the wait for 'terminated' and Start,
\* in this order (so Start never comes before the wait), and Start was given
\* the name of the replaced instance.
\* ------------------------------------------------------------------------

ReplaceEnded == rpc \in {"raised", "returned"}

\* replace has made its selection and there is an instance in it
ReplaceSelected == r_selected /\ replace_instances # <<>>

\* the operations of the calls made, in order
CallOrder == [k \in DOMAIN calls |-> calls[k].op]

C12_ReplaceOrder ==
    (ReplaceEnded /\ ReplaceSelected) =>
        /\ CallOrder = <<"describe", "terminate", "wait", "start">>
        /\ calls[4].name = r_tags[replace_instances[1]]

\* ------------------------------------------------------------------------
\* C13: when replace has ended after it selected an instance, it has called
\* Start, and with the image, flavour and key of the described instance,
\* except those given on the command line, which are passed as given.
\* ------------------------------------------------------------------------

\* the value the provider holds of launch attribute f of instance i
LaunchAttribute(i, f) == <<f, i>>

\* the value of launch attribute f given on the command line
Option(f) == <<f, "option">>

C13_ReplaceParameters ==
    (ReplaceEnded /\ ReplaceSelected) =>
        \E k \in DOMAIN calls :
            /\ calls[k].op = "start"
            /\ \A f \in Fields :
                  calls[k][f] = IF f \in r_over
                                   THEN Option(f)
                                   ELSE LaunchAttribute(replace_instances[1], f)

\* ------------------------------------------------------------------------
\* C14: whatever Name tags the running instances carry (or lack), when
\* replace was given a prefix or names and has ended, it has selected the
\* instances whose name starts with the prefix and, when names were given,
\* is one of them; and it terminated no instance outside that selection.
\* ------------------------------------------------------------------------

ExpectedSelection ==
    SelectSeq(running_instances,
              LAMBDA i :
                 /\ r_name # None =>
                       r_tags[i] # None /\ startswith(r_tags[i], r_name)
                 /\ r_args # {} => r_tags[i] \in r_args)

C14_ReplaceSelection ==
    (ReplaceEnded /\ (r_name # None \/ r_args # {})) =>
        /\ r_selected
        /\ replace_instances = ExpectedSelection
        /\ \A k \in DOMAIN calls :
              calls[k].op = "terminate" =>
                 Range(calls[k].ids) \subseteq Range(ExpectedSelection)


\* ------------------------------------------------------------------------
\* C15: Swarm.terminate(instances, wait=True) always returns: once it polls
\* for the terminated state it leaves its loop in the end, also when an
\* instance of the list never reaches state terminated.
\* ------------------------------------------------------------------------

C15_TerminateReturns == (tpc = "poll") ~> (tpc = "returned")


\* ------------------------------------------------------------------------
\* C16: when Swarm.wait has the target 'ssh', port 22 of an instance is
\* tried only after a poll of wait_running has found that instance running:
\* every instance probed is an instance confirmed running.
\* ------------------------------------------------------------------------

C16_ReachableFollowsRunning == w_state = "ssh" => probed \subseteq confirmed


\* ------------------------------------------------------------------------
\* C17: waiting never cleans up.  The only kind of request Swarm.wait,
\* wait_running, wait_ssh, wait_terminated and get_status send the provider
\* is describe_instances (no terminate, create or tag), and no step of the
\* wait changes the provider's instances or their states, stragglers after
\* a timeout included.
\* ------------------------------------------------------------------------

C17_WaitNeverCleansUp ==
    /\ [](requests \subseteq {"describe_instances"})
    /\ [][(Wait \/ WaitStep) => UNCHANGED provVars]_vars

\* a wait that timed out has returned and reported its stragglers, which
\* are still in the state they were in
C17_Witness ==
    /\ wpc = "returned"
    /\ w_status > 0
    /\ "describe_instances" \in requests
    /\ \E i \in Range(check_ids) : vm_state[i] \in {"pending", "running"}


\* ------------------------------------------------------------------------
\* C18: selector closure.  For a duplicate-free list S and two filters f1,
\* f2, filter(S, f1, f2) is intersection(filter(S, f1), filter(S, f2)): the
\* instances of S both filters hold for, in the order they have in S.
\* ------------------------------------------------------------------------

C18_SelectorClosure ==
    (s_op = "filter" /\ Len(s_f) = 2 /\ NoDup(s_in1)) =>
        /\ s_out = intersection(filter(s_in1, <<s_f[1]>>),
                                filter(s_in1, <<s_f[2]>>))
        /\ s_out = SelectSeq(s_in1, LAMBDA s : s \in s_f[1] \cap s_f[2])

\* two filters that each drop an instance the other keeps, and keep two
C18_Witness ==
    /\ s_op = "filter"
    /\ Len(s_f) = 2
    /\ NoDup(s_in1)
    /\ Len(s_out) = 2
    /\ Len(filter(s_in1, <<s_f[1]>>)) > 2
    /\ filter(s_in1, <<s_f[1]>>) # filter(s_in1, <<s_f[2]>>)

\* ------------------------------------------------------------------------
\* C19: union(A, A) is A for every list A; for duplicate-free A and B,
\* union(A, B) is A followed by the instances of B that are not in A, in
\* B's order, and holds no instance twice.
\* ------------------------------------------------------------------------

C19_UnionShape ==
    s_op = "union" =>
        /\ s_in1 = s_in2 => s_out = s_in1
        /\ (NoDup(s_in1) /\ NoDup(s_in2)) =>
              /\ s_out = s_in1 \o SelectSeq(s_in2,
                                            LAMBDA s : s \notin Range(s_in1))
              /\ NoDup(s_out)

\* a union of two lists that share an instance and each have one of their
\* own
C19_Witness ==
    /\ s_op = "union"
    /\ NoDup(s_in1)
    /\ NoDup(s_in2)
    /\ Range(s_in1) \cap Range(s_in2) # {}
    /\ Range(s_in2) \ Range(s_in1) # {}
    /\ Len(s_out) = MaxSel

\* ------------------------------------------------------------------------
\* C20: Swarm.filter called with no filter selects no instance, whatever
\* the list.
\* ------------------------------------------------------------------------

C20_EmptyFilterNothing ==
    (s_op = "filter" /\ s_f = <<>>) => s_out = <<>>

\* C20, as amended: Swarm.filter called with no filter selects every
\* instance of the list, in the list's order.
C20_EmptyFilterEverything ==
    (s_op = "filter" /\ s_f = <<>>) => s_out = s_in1

\* filter without filters on a list of several instances
C20_Witness ==
    /\ s_op = "filter"
    /\ s_f = <<>>
    /\ Len(s_in1) > 1

\* ------------------------------------------------------------------------
\* C21: an id that a describe response of wait_running or wait_terminated
\* lacked is not dropped from the working set: when the wait has ended it
\* is still among the ids counted as not having reached the target state.
\* ------------------------------------------------------------------------

C21_MissingIdsReported ==
    (WaitEnded /\ w_state \in {"running", "terminated"})
        => missed \subseteq Range(check_ids)

\* ------------------------------------------------------------------------
\* C29: in wait_running and wait_terminated the ids polled shrink from
\* round to round: after every pass the working set is a subset of the
\* working set before the pass and of the submitted ids, for every submitted
\* list, the empty one included (its working set stays empty).
\* ------------------------------------------------------------------------

C29_ShrinkingWorkingSet ==
    [][(wpc \in {"wait_running", "wait_terminated"})
          => (Range(check_ids') \subseteq Range(check_ids)
                                     \cap Range(w_instances))]_vars

\* ------------------------------------------------------------------------
\* C22: a failure that concerns one instance only never leaves Swarm.copy
\* as an exception, and does not keep the copy to the other instances from
\* being started and reported: copy does not raise, and when it returns
\* there is a result for every instance of the list, with a non-zero
\* status for the instance whose scp failed.
\* ------------------------------------------------------------------------

C22_CopyFanOut ==
    /\ cpc # "raised"
    /\ cpc = "returned" =>
          /\ {r.instance : r \in Range(c_result)} = Range(c_instances)
          /\ \A r \in Range(c_result) :
                r.status # 0 <=> r.instance = c_refused

\* ------------------------------------------------------------------------
\* C23: the number of scp operations of Swarm.copy in progress at a time
\* never exceeds NumOSThreads, however many instances are copied to.
\* ------------------------------------------------------------------------

C23_CopyBounded == Cardinality(c_threads) <= NumOSThreads

\* ------------------------------------------------------------------------
\* C24: 'swarm stop' ends by returning; without --yes it has issued no
\* terminate request when what the user typed is empty or does not start
\* with 'y'; a confirmed run (--yes, or an answer that starts with 'y')
\* has requested terminate for exactly the selection whose count the
\* prompt showed, and an empty selection is never terminated.
\* ------------------------------------------------------------------------

C24_StopAfterConfirmation ==
    kpc # "idle" =>
       /\ kpc = "returned"
       /\ (~yes /\ (typed = <<>> \/ typed[1] # "y")) => terminated = <<>>
       /\ terminated \in {<<>>, <<filtered_instances>>}
       /\ terminated # <<>> =>
             /\ filtered_instances # <<>>
             /\ yes \/ prompted = Len(filtered_instances)

\* ------------------------------------------------------------------------
\* C25: classify returns the label of the first classifier, in the listed
\* order, that returns a label; it returns 'OK' if and only if no
\* classifier returns one; and the classifiers listed after the first
\* match have no part in the result.
\* ------------------------------------------------------------------------

C25_FirstMatch ==
    verdict # "none yet" =>
       LET matching == {k \in DOMAIN classifiers :
                           class(classifiers[k], console) # "None"}
       IN  /\ verdict = "OK" <=> matching = {}
           /\ \A k \in matching :
                 (\A j \in matching : k <= j) =>
                    /\ verdict = class(classifiers[k], console)
                    /\ verdict = classify(SubSeq(classifiers, 1, k), console)

\* a log that two classifiers with different labels match, classified by
\* the earlier one
C25_Witness ==
    /\ verdict = "ROFS"
    /\ class("class_network_unreachable", console) = "NETWORK_UNREACHABLE"

\* ------------------------------------------------------------------------
\* C26: the names Swarm.start treats as already in use contain the Name
\* tag of every instance that is pending or running when start is called,
\* so no generated name is the name of an instance that was pending then.
\* ------------------------------------------------------------------------

C26_PendingNamesProbed ==
    spc # "idle" =>
       /\ pending_tags \subseteq used0
       /\ \A k \in DOMAIN pending_names : pending_names[k] \notin pending_tags

\* ------------------------------------------------------------------------
\* C27: the name search of Swarm.start always ends: with a template
\* without {number} and num > 1 it ends by raising the runaway error, and
\* with a {number} template it ends with num unused names collected.
\* ------------------------------------------------------------------------

SearchEnded == spc \notin {"idle", "names", "loop"}

C27_SearchTerminates ==
    /\ (spc = "names") ~> SearchEnded
    /\ []((~HasNumber(name) /\ num > 1 /\ SearchEnded) => spc = "runaway")
    /\ []((HasNumber(name) /\ SearchEnded) =>
             /\ spc # "runaway"
             /\ Len(pending_names) = num
             /\ \A k \in DOMAIN pending_names : pending_names[k] \notin used0)

\* C27, as amended: the name search of Swarm.start always ends: with a
\* template without {number} and num > 1 it ends by raising the runaway
\* error; with a {number} template it ends either with num unused names
\* collected, or by raising the runaway error at a candidate numbered
\* above 999 that is in use.
C27_SearchTerminatesOrRunaway ==
    /\ (spc = "names") ~> SearchEnded
    /\ []((~HasNumber(name) /\ num > 1 /\ SearchEnded) => spc = "runaway")
    /\ []((HasNumber(name) /\ SearchEnded) =>
             \/ /\ spc = "runaway"
                /\ instance_number > RunawayLimit
                /\ Format(name, instance_number) \in used0
             \/ /\ spc # "runaway"
                /\ Len(pending_names) = num
                /\ \A k \in DOMAIN pending_names :
                      pending_names[k] \notin used0)

\* a search with a {number} template that ended in the runaway error
C27_Witness ==
    /\ spc = "runaway"
    /\ HasNumber(name)
    /\ num >= 1

\* ------------------------------------------------------------------------
\* C28: Swarm.start issues exactly one create request, for num instances,
\* and tags afterwards only: each created instance in turn, after it was
\* seen running. When start returns, every created instance carries a
\* Name tag, the tags are pairwise distinct and are the generated names in
\* order. A tagging step that fails ends start with the exception.
\* ------------------------------------------------------------------------

C28_StartOrdering ==
    /\ [](Len(creates) <= 1)
    /\ [](spc \in {"created", "returned"} => creates = <<num>>)
    /\ [](\A k \in DOMAIN name_tags :
             name_tags[k] # None => /\ creates = <<num>>
                                    /\ k \in seen_running
                                    /\ \A j \in 1..k : name_tags[j] # None)
    /\ [](spc = "returned" =>
             /\ ~tag_failed
             /\ Len(pending_instances) = num
             /\ name_tags = pending_names
             /\ NoDup(name_tags)
             /\ \A k \in DOMAIN name_tags : name_tags[k] # None)
    /\ [](tag_failed => spc = "raised")
    /\ [][(\E k \in DOMAIN name_tags' : name_tags'[k] # None)
             => creates' = creates]_vars

\* start returned after it created and tagged several instances
C28_Witness ==
    /\ spc = "returned"
    /\ num > 1
    /\ Len(pending_instances) = num
    /\ \A k \in DOMAIN name_tags : name_tags[k] # None

\* ------------------------------------------------------------------------
\* C30: terminate(instances, wait=True) returns only after a terminate
\* request was issued for every listed instance and a state fetch made
\* after the requests showed each of them terminated; an instance leaves
\* the poll set only in a pass in which its state, fetched in that pass, is
\* terminated.
\* ------------------------------------------------------------------------

C30_TerminationConfirmed ==
    /\ []((tpc = "returned" /\ t_wait) =>
             /\ Range(t_listed) \subseteq t_requested
             /\ Range(t_listed) \subseteq t_fetched)
    /\ [](t_fetched \subseteq t_requested)
    /\ [][(tpc \in {"poll", "sleep"}) =>
             \A i \in Range(t_instances) \ Range(t_instances') :
                /\ tpc = "poll"
                /\ vm_state[i] = "terminated"
                /\ i \in t_fetched']_vars

\* a terminate with wait that returned after polling several instances in
\* more than one pass
C30_Witness ==
    /\ tpc = "returned"
    /\ t_wait
    /\ Len(t_listed) > 1
    /\ t_fetched = Range(t_listed)

\* ------------------------------------------------------------------------
\* C31: in the outcome of Swarm.wait for target 'ssh' an instance that did
\* not accept a connection before the wait ended has no entry with state
\* 'ssh' in the status list: only instances that connected are reported
\* as 'ssh'.
\* ------------------------------------------------------------------------

C31_StragglersVisible ==
    (wpc = "returned" /\ w_state = "ssh") =>
        \A i \in Range(check_ids) :
            \A k \in DOMAIN w_data :
                w_data[k].ip = Address(i) => w_data[k].state # "ssh"

\* ------------------------------------------------------------------------
\* C32: when replace has ended after it selected an instance, it has
\* started the replacement, and the call before the start was a listing of
\* the fleet in which no instance carried the replaced name.
\* ------------------------------------------------------------------------

C32_ReplaceSureGone ==
    (ReplaceEnded /\ ReplaceSelected) =>
        \E k \in DOMAIN calls :
            /\ calls[k].op = "start"
            /\ k > 1
            /\ calls[k - 1].op = "list"
            /\ r_tags[replace_instances[1]] \notin calls[k - 1].names

\* ------------------------------------------------------------------------
\* C33: when neither -p nor -s is given, stop returns 1 (the usage error)
\* and has requested the termination of no instance.
\* ------------------------------------------------------------------------

C33_NoGlobalTerminate ==
    (kpc # "idle" /\ k_given = {}) =>
        /\ kpc = "returned"
        /\ k_status = 1
        /\ terminated = <<>>

\* ------------------------------------------------------------------------
\* The workflow steps that change the fleet: one calling thread runs either
\* start() or terminate(), next to the provider.
\* ------------------------------------------------------------------------

WorkflowNext ==
    \/ tpc = "idle" /\ StartNext
    \/ spc = "idle" /\ TerminateNext

SpecWorkflow == Init /\ [][WorkflowNext]_vars

\* the mutating requests issued so far: create_instances calls, create_tags
\* calls that went through, terminate calls
issued ==
    Len(creates)
    + Cardinality({k \in DOMAIN name_tags : name_tags[k] # None})
    + Cardinality(t_requested)

\* ------------------------------------------------------------------------
\* C34: the create, tag and terminate requests of a workflow step are
\* issued one after another: no step of the calling thread issues more than
\* one of them, and none is issued while start() or terminate() is not the
\* step being run.
\* ------------------------------------------------------------------------

C35_ClassifiersPure ==
    verdict # "none yet" => tmp_files = <<>>

\* ------------------------------------------------------------------------
\* C36: the collector's exit test loses no result. When _apply_threads
\* returns, no worker is alive and no result is left in the output queue;
\* if no function raised, the returned list holds every submitted instance
\* exactly once.
\* ------------------------------------------------------------------------

C36_NoResultLost ==
    epc = "done" =>
        /\ pool = EmptyBag
        /\ output_q = <<>>
        /\ raised = {} =>
              /\ NoDup(result)
              /\ Range(result) = Range(instances)

\* no worker is alive any more, nothing raised, and results are still in
\* the output queue when the collector comes to its second test
C36_Witness ==
    /\ epc = "loop2"
    /\ raised = {}
    /\ output_q # <<>>

\* ------------------------------------------------------------------------
\* The thread-pool calls under fair scheduling: one call of _apply_threads
\* or of Swarm.copy, its caller and its threads each getting their turn.
\* ------------------------------------------------------------------------

\* the longest instance list of a call in the runs with fairness
MaxLive == 4

PoolNext ==
    \/ cpc = "idle" /\ ExecNext /\ Len(instances') <= MaxLive
    \/ epc = "idle" /\ CopyNext /\ Len(c_instances') <= MaxLive

\* the steps of the thread that called _apply_threads or copy
CallerStep ==
    \/ StartThread
    \/ StartDone
    \/ CollectTestThreads
    \/ CollectTestQueue
    \/ CollectDrain
    \/ CopyStart
    \/ CopyCollect
    \/ CopyReturn

\* the steps of the doitThread and CopyThread threads; a per-instance call
\* comes to its end, by a return or by an exception
ThreadStep ==
    \/ WorkerTest
    \/ WorkerGet
    \/ WorkerReturn
    \/ WorkerRaise
    \/ CopyThreadRun

SpecPoolLive ==
    /\ Init
    /\ [][PoolNext]_vars
    /\ WF_vars(CallerStep)
    /\ WF_vars(ThreadStep)

\* ------------------------------------------------------------------------
\* C37: under fair scheduling a call of _apply_threads returns, and a call
\* of Swarm.copy in which every per-instance call returns (every key file
\* is found) returns.
\* ------------------------------------------------------------------------

C37_ExecutorLiveness ==
    /\ (epc # "idle") ~> (epc = "done")
    /\ (cpc # "idle" /\ c_nokey = 0) ~> (cpc = "returned")

\* a worker passed 'while not input_q.empty()' and finds the queue emptied
\* by the others when it comes to get_nowait()
C37_Witness ==
    /\ Worker("get", 0) \in BagToSet(pool)
    /\ input_q = <<>>
    /\ Len(instances) < NumOSThreads

SpecConcStart == Init /\ [][ConcNext]_vars

\* ------------------------------------------------------------------------
\* C38: two start workflows running at the same time never give two
\* instances the same Name tag.
\* ------------------------------------------------------------------------

C38_NoNameCollision ==
    \A a, b \in DOMAIN ec2_instances :
        (a # b /\ ec2_instances[a].name # None) =>
            ec2_instances[a].name # ec2_instances[b].name

\* ------------------------------------------------------------------------
\* C39: for the targets running and terminated, the count returned by
\* Swarm.wait is the number of entries of the returned status list whose
\* state is not the target.
\* ------------------------------------------------------------------------

C39_CountMatchesRoster ==
    (wpc = "returned" /\ w_state \in {"running", "terminated"}) =>
        w_status = Cardinality({k \in DOMAIN w_data :
                                   w_data[k].state # w_state})

\* ------------------------------------------------------------------------
\* C40: filter, union and intersection leave the lists passed in as they
\* were: after the call the first list has exactly its original elements.
\* ------------------------------------------------------------------------

C40_InputsUnchanged ==
    s_op # "none" => s_arg1 = s_in1

=============================================================================
